---------------------------- MODULE Spec2Model ----------------------------
(***************************************************************************)
(* The resource graph declared by WordpressStack / ManagedWordpress        *)
(* (src/lib/wordpress-stack.ts, src/lib/ManagedWordpress.ts), the order in *)
(* which the deployment engine creates it, and the run-time behaviour the  *)
(* declared configuration selects: listener routing, edge caching,         *)
(* task-count scaling and deployment rollback.                             *)
(***************************************************************************)
EXTENDS Integers, Sequences, FiniteSets, TLC

VARIABLES
    pc,           \* next statement of the constructors
    props,        \* the ManagedWordpressProps handed to the construct
    tmpl,         \* construct id -> declared configuration
    secretStore,  \* secret name -> field -> value (exists outside the stack)
    live,         \* construct id -> configuration as created (refs resolved)
    taskCount,    \* desired count of the running service
    cache,        \* paths held by the edge cache
    last,         \* the last request handled and what happened to it
    deployment    \* the service's current deployment

vars == <<pc, props, tmpl, secretStore, live, taskCount, cache, last, deployment>>

(***************************************************************************)
(* Bounds of the model.                                                    *)
(***************************************************************************)
MaxCapacity == 3
MaxFailedTasks == 2

(***************************************************************************)
(* Program constants.                                                      *)
(***************************************************************************)
CONTAINER_PORT == 8080
SCALE_PERCENT == 90

(***************************************************************************)
(* Values a property of a resource can hold: a literal of the code, a      *)
(* reference to an attribute of another construct, a container secret      *)
(* (resolved when the task is launched) or a dynamic reference to a secret *)
(* field (resolved when the resource is created).                          *)
(***************************************************************************)
Lit(v) == [kind |-> "literal", target |-> "", attr |-> v]
Ref(id, a) == [kind |-> "ref", target |-> id, attr |-> a]
FromSecretsManager(secret, field) == [kind |-> "secretRef", target |-> secret, attr |-> field]
SecretValueFromJson(secret, field) == [kind |-> "dynamicRef", target |-> secret, attr |-> field]

HeaderValues == {"s1", "s2"}

Scalings == [min : 0..MaxCapacity, max : 0..MaxCapacity]

(***************************************************************************)
(* wordpress-stack.ts                                                      *)
(***************************************************************************)
VpcProps == [kind |-> "resource", type |-> "Vpc", maxAzs |-> 2, natGateways |-> 0]

HostedZoneLookup == [kind |-> "import", type |-> "HostedZone", domainName |-> "nopremise.cloud"]

StackScaling == [min |-> 1, max |-> 2]

WebServiceProps(scaling) ==
    [vpc |-> "VPC",
     hostedZone |-> " HostedZone",
     siteName |-> "No Premise Cloud",
     imageVersion |-> "6.1.1",
     db |-> [secretName |-> "planetscape-mysql"],
     size |-> [memory |-> 512, cpu |-> 256],
     scaling |-> scaling]

(***************************************************************************)
(* ManagedWordpress.ts: the configuration of each construct                *)
(***************************************************************************)
PersistentStorageProps ==
    [kind |-> "resource", type |-> "FileSystem",
     vpc |-> props.vpc,
     enableAutomaticBackups |-> TRUE,
     encrypted |-> TRUE,
     performanceMode |-> "GENERAL_PURPOSE",
     throughputMode |-> "ELASTIC",
     vpcSubnets |-> "PRIVATE_ISOLATED"]


\* The root directory created for root while the access point forces uid 1001.
AccessPointOwnedByRoot ==
    [kind |-> "resource", type |-> "AccessPoint",
     fileSystem |-> "PersistentStorage",
     path |-> "/wordpress",
     createAcl |-> [ownerUid |-> "0", ownerGid |-> "0", permissions |-> "0755"],
     posixUser |-> [uid |-> "1001", gid |-> "0"]]

AccessPointProps ==
    [kind |-> "resource", type |-> "AccessPoint",
     fileSystem |-> "PersistentStorage",
     path |-> "/wordpress",
     createAcl |-> [ownerUid |-> "1001", ownerGid |-> "0", permissions |-> "0755"],
     posixUser |-> [uid |-> "1001", gid |-> "0"]]

TaskDefinitionProps ==
    [kind |-> "resource", type |-> "TaskDefinition",
     compatibility |-> "FARGATE",
     memoryMiB |-> ToString(props.size.memory),
     cpu |-> ToString(props.size.cpu),
     containers |-> <<>>,
     volumes |-> {},
     taskRolePolicy |-> {}]

DatabaseSecretImport ==
    [kind |-> "import", type |-> "Secret", secretName |-> props.db.secretName]


\* The database password written into the plain environment.
WebContainerEnvironmentWithPassword ==
    [MYSQL_CLIENT_ENABLE_SSL |-> Lit("yes"),
     WORDPRESS_ENABLE_DATABASE_SSL |-> Lit("yes"),
     WORDPRESS_DATABASE_PASSWORD |-> Lit("p1"),
     WORDPRESS_EXTRA_WP_CONFIG_CONTENT |->
        Lit("define('FORCE_SSL_ADMIN', true); $_SERVER['HTTPS']='on';")]

WebContainerEnvironment ==
    [MYSQL_CLIENT_ENABLE_SSL |-> Lit("yes"),
     WORDPRESS_ENABLE_DATABASE_SSL |-> Lit("yes"),
     WORDPRESS_EXTRA_WP_CONFIG_CONTENT |->
        Lit("define('FORCE_SSL_ADMIN', true); $_SERVER['HTTPS']='on';")]

WebContainerSecrets ==
    [WORDPRESS_DATABASE_NAME |-> FromSecretsManager("DatabaseSecret", "dbname"),
     WORDPRESS_DATABASE_HOST |-> FromSecretsManager("DatabaseSecret", "host"),
     WORDPRESS_DATABASE_PORT_NUMBER |-> FromSecretsManager("DatabaseSecret", "port"),
     WORDPRESS_DATABASE_USER |-> FromSecretsManager("DatabaseSecret", "username"),
     WORDPRESS_DATABASE_PASSWORD |-> FromSecretsManager("DatabaseSecret", "password")]

WebContainerProps ==
    [containerName |-> "WebContainer",
     image |-> "bitnami/wordpress:" \o props.imageVersion,
     logging |-> [streamPrefix |-> "/ecs/Wordpress", logRetention |-> "ONE_WEEK"],
     environment |-> WebContainerEnvironment,
     secrets |-> WebContainerSecrets,
     mountPoints |-> {},
     portMappings |-> {}]

volumeName == "wp-vol"


\* The volume naming an access point that no construct declares.
VolumeWithUndeclaredAccessPoint ==
    [name |-> volumeName,
     efsVolumeConfiguration |->
        [fileSystemId |-> Ref("PersistentStorage", "fileSystemId"),
         transitEncryption |-> "ENABLED",
         authorizationConfig |->
            [accessPointId |-> Ref("AccessPoint", "accessPointId"),
             iam |-> "ENABLED"]]]

VolumeProps ==
    [name |-> volumeName,
     efsVolumeConfiguration |->
        [fileSystemId |-> Ref("PersistentStorage", "fileSystemId"),
         transitEncryption |-> "ENABLED",
         authorizationConfig |->
            [accessPointId |-> Ref("PersistentStorageAccessPoint", "accessPointId"),
             iam |-> "ENABLED"]]]

MountPointProps ==
    [containerPath |-> "/bitnami/wordpress", readOnly |-> FALSE, sourceVolume |-> volumeName]

EfsPolicyStatement ==
    [actions |-> {"elasticfilesystem:ClientRootAccess", "elasticfilesystem:ClientWrite",
                  "elasticfilesystem:ClientMount", "elasticfilesystem:DescribeMountTargets"},
     resources |-> {Ref("PersistentStorage", "fileSystemArn")}]

SecretPolicyStatement ==
    [actions |-> {"secretsmanager:GetSecretValue"},
     resources |-> {Ref("DatabaseSecret", "secretArn")}]


\* The container mapped on the default HTTP port instead of CONTAINER_PORT.
PortMappingDefaultHttp == [containerPort |-> 80, hostPort |-> 80]

PortMappingProps == [containerPort |-> CONTAINER_PORT, hostPort |-> CONTAINER_PORT]

LoadBalancerProps ==
    [kind |-> "resource", type |-> "ApplicationLoadBalancer",
     vpc |-> props.vpc, internetFacing |-> TRUE, vpcSubnets |-> "PUBLIC"]

ClusterProps == [kind |-> "resource", type |-> "Cluster", vpc |-> props.vpc]


\* The circuit breaker declared without rollback.
ContainerServiceWithoutRollback ==
    [kind |-> "resource", type |-> "FargateService",
     cluster |-> "Cluster",
     taskDefinition |-> "TaskDefinition",
     assignPublicIp |-> TRUE,
     desiredCount |-> 1,
     vpcSubnets |-> "PUBLIC",
     minHealthyPercent |-> 50,
     maxHealthyPercent |-> 200,
     circuitBreaker |-> [rollback |-> FALSE]]

ContainerServiceProps ==
    [kind |-> "resource", type |-> "FargateService",
     cluster |-> "Cluster",
     taskDefinition |-> "TaskDefinition",
     assignPublicIp |-> TRUE,
     desiredCount |-> 1,
     vpcSubnets |-> "PUBLIC",
     minHealthyPercent |-> 50,
     maxHealthyPercent |-> 200,
     circuitBreaker |-> [rollback |-> TRUE]]

EfsIngressProps ==
    [kind |-> "resource", type |-> "SecurityGroupIngress",
     fileSystem |-> "PersistentStorage", from |-> "ContainerService"]

TargetGroupProps ==
    [kind |-> "resource", type |-> "ApplicationTargetGroup",
     port |-> CONTAINER_PORT,
     protocol |-> "HTTP",
     deregistrationDelay |-> 5,
     vpc |-> props.vpc,
     targets |-> {[service |-> "ContainerService",
                   containerName |-> tmpl["TaskDefinition"].containers[1].containerName,
                   containerPort |-> CONTAINER_PORT]},
     healthCheck |-> [path |-> "/", port |-> ToString(CONTAINER_PORT),
                      healthyHttpCodes |-> "200", interval |-> 5, timeout |-> 2,
                      healthyThresholdCount |-> 2]]

ListenerProps ==
    [kind |-> "resource", type |-> "ApplicationListener",
     defaultAction |-> [type |-> "fixed-response", statusCode |-> 403,
                        messageBody |-> "Access Denied"],
     loadBalancer |-> "LoadBalancer",
     open |-> TRUE,
     port |-> 80]


\* The rule declared without its header condition.
ListenerRuleWithoutCondition ==
    [kind |-> "resource", type |-> "ApplicationListenerRule",
     listener |-> "Listener",
     priority |-> 1,
     targetGroups |-> {"TargetGroup"},
     conditions |-> {}]

ListenerRuleProps ==
    [kind |-> "resource", type |-> "ApplicationListenerRule",
     listener |-> "Listener",
     priority |-> 1,
     targetGroups |-> {"TargetGroup"},
     conditions |-> {[field |-> "http-header", name |-> "X-Custom-Header",
                      values |-> {SecretValueFromJson("DatabaseSecret", "loadbalancer")}]}]


\* min and max handed over in each other's place.
ScalingPropsSwapped ==
    [kind |-> "resource", type |-> "ScalableTarget",
     service |-> "ContainerService",
     minCapacity |-> props.scaling.max,
     maxCapacity |-> props.scaling.min]

ScalingProps ==
    [kind |-> "resource", type |-> "ScalableTarget",
     service |-> "ContainerService",
     minCapacity |-> props.scaling.min,
     maxCapacity |-> props.scaling.max]

CpuScalingProps ==
    [kind |-> "resource", type |-> "TargetTrackingPolicy",
     scalingTarget |-> "scaling",
     metric |-> "cpu", targetUtilizationPercent |-> SCALE_PERCENT]

MemoryScalingProps ==
    [kind |-> "resource", type |-> "TargetTrackingPolicy",
     scalingTarget |-> "scaling",
     metric |-> "memory", targetUtilizationPercent |-> SCALE_PERCENT]

CertificateProps ==
    [kind |-> "resource", type |-> "DnsValidatedCertificate",
     domainName |-> Ref(props.hostedZone, "zoneName"),
     hostedZone |-> props.hostedZone,
     region |-> "us-east-1"]

LimitedPolicyProps ==
    [kind |-> "resource", type |-> "OriginRequestPolicy",
     queryStringBehavior |-> "all",
     headerBehavior |-> {"Host"}]


\* An origin that adds no custom header.
OriginWithoutSecretHeader(lb) ==
    [loadBalancer |-> lb,
     protocolPolicy |-> "http-only",
     customHeaders |-> [h \in {} |-> Lit("")]]

LoadBalancerV2Origin(lb) ==
    [loadBalancer |-> lb,
     protocolPolicy |-> "http-only",
     customHeaders |->
        [h \in {"X-Custom-Header"} |-> SecretValueFromJson("DatabaseSecret", "loadbalancer")]]


\* The default behaviour declared with the caching policy of the static paths.
DefaultBehaviorCached ==
    [origin |-> LoadBalancerV2Origin("LoadBalancer"),
     allowedMethods |-> "ALLOW_ALL",
     cachePolicy |-> "CACHING_OPTIMIZED",
     viewerProtocolPolicy |-> "redirect-to-https",
     originRequestPolicy |-> "ALL_VIEWER"]

DefaultBehavior ==
    [origin |-> LoadBalancerV2Origin("LoadBalancer"),
     allowedMethods |-> "ALLOW_ALL",
     cachePolicy |-> "CACHING_DISABLED",
     viewerProtocolPolicy |-> "redirect-to-https",
     originRequestPolicy |-> "ALL_VIEWER"]

WpIncludesBehavior ==
    [origin |-> LoadBalancerV2Origin("LoadBalancer"),
     allowedMethods |-> "ALLOW_ALL",
     cachePolicy |-> "CACHING_OPTIMIZED",
     viewerProtocolPolicy |-> "redirect-to-https",
     originRequestPolicy |-> "Limited"]

CDNProps ==
    [kind |-> "resource", type |-> "Distribution",
     certificate |-> "Certificate",
     domainNames |-> {Ref(props.hostedZone, "zoneName")},
     priceClass |-> "PRICE_CLASS_100",
     defaultBehavior |-> DefaultBehavior,
     additionalBehaviors |-> [p \in {"wp-includes/*"} |-> WpIncludesBehavior]]

DomainARecordProps ==
    [kind |-> "resource", type |-> "ARecord",
     recordName |-> Ref(props.hostedZone, "zoneName"),
     target |-> "CDN",
     zone |-> props.hostedZone]

(***************************************************************************)
(* Mutators of the task definition (lines 101-162).  defaultContainer is   *)
(* the first container added; `defaultContainer?.f(..)` does nothing when  *)
(* there is none.                                                          *)
(***************************************************************************)
AddContainer(td, c) == [td EXCEPT !.containers = Append(@, c)]

AddVolume(td, v) == [td EXCEPT !.volumes = @ \cup {v}]

AddMountPoints(td, mp) ==
    IF Len(td.containers) = 0 THEN td
    ELSE [td EXCEPT !.containers[1].mountPoints = @ \cup {mp}]

AddToTaskRolePolicy(td, st) == [td EXCEPT !.taskRolePolicy = @ \cup {st}]

AddPortMappings(td, pm) ==
    IF Len(td.containers) = 0 THEN td
    ELSE [td EXCEPT !.containers[1].portMappings = @ \cup {pm}]

(***************************************************************************)
(* The constructors, statement by statement.                               *)
(***************************************************************************)
Runtime == <<secretStore, live, taskCount, cache, last, deployment>>

Declare(at, id, cfg, next) ==
    /\ pc = at
    /\ tmpl' = tmpl @@ (id :> cfg)
    /\ pc' = next
    /\ UNCHANGED <<props, Runtime>>

Mutate(at, id, cfg, next) ==
    /\ pc = at
    /\ tmpl' = [tmpl EXCEPT ![id] = cfg]
    /\ pc' = next
    /\ UNCHANGED <<props, Runtime>>

NewVpc == Declare("VPC", "VPC", VpcProps, "HostedZone")

LookupHostedZone == Declare("HostedZone", " HostedZone", HostedZoneLookup, "PersistentStorage")

NewFileSystem ==
    Declare("PersistentStorage", "PersistentStorage", PersistentStorageProps,
            "PersistentStorageAccessPoint")

NewAccessPoint ==
    Declare("PersistentStorageAccessPoint", "PersistentStorageAccessPoint",
            AccessPointProps, "TaskDefinition")

NewTaskDefinition ==
    Declare("TaskDefinition", "TaskDefinition", TaskDefinitionProps, "DatabaseSecret")

ImportDatabaseSecret ==
    Declare("DatabaseSecret", "DatabaseSecret", DatabaseSecretImport, "WebContainer")

AddWebContainer ==
    Mutate("WebContainer", "TaskDefinition",
           AddContainer(tmpl["TaskDefinition"], WebContainerProps), "addVolume")

AddEfsVolume ==
    Mutate("addVolume", "TaskDefinition",
           AddVolume(tmpl["TaskDefinition"], VolumeProps), "addMountPoints")

AddEfsMountPoint ==
    Mutate("addMountPoints", "TaskDefinition",
           AddMountPoints(tmpl["TaskDefinition"], MountPointProps), "efsPolicy")

AddEfsPolicy ==
    Mutate("efsPolicy", "TaskDefinition",
           AddToTaskRolePolicy(tmpl["TaskDefinition"], EfsPolicyStatement), "secretPolicy")

AddSecretPolicy ==
    Mutate("secretPolicy", "TaskDefinition",
           AddToTaskRolePolicy(tmpl["TaskDefinition"], SecretPolicyStatement),
           "addPortMappings")

AddContainerPort ==
    Mutate("addPortMappings", "TaskDefinition",
           AddPortMappings(tmpl["TaskDefinition"], PortMappingProps), "LoadBalancer")

NewLoadBalancer == Declare("LoadBalancer", "LoadBalancer", LoadBalancerProps, "Cluster")

NewCluster == Declare("Cluster", "Cluster", ClusterProps, "ContainerService")

NewFargateService ==
    Declare("ContainerService", "ContainerService", ContainerServiceProps, "allowDefaultPortFrom")

AllowEfsFromService ==
    Declare("allowDefaultPortFrom", "EfsIngress", EfsIngressProps, "TargetGroup")

NewTargetGroup == Declare("TargetGroup", "TargetGroup", TargetGroupProps, "Listener")

NewListener == Declare("Listener", "Listener", ListenerProps, "ListenerRule")

NewListenerRule == Declare("ListenerRule", "ListenerRule", ListenerRuleProps, "scaling")

AutoScaleTaskCount == Declare("scaling", "scaling", ScalingProps, "cpu")

ScaleOnCpuUtilization == Declare("cpu", "cpu", CpuScalingProps, "memory")

ScaleOnMemoryUtilization == Declare("memory", "memory", MemoryScalingProps, "Certificate")

NewCertificate == Declare("Certificate", "Certificate", CertificateProps, "Limited")

NewLimitedPolicy == Declare("Limited", "Limited", LimitedPolicyProps, "CDN")

NewDistribution == Declare("CDN", "CDN", CDNProps, "DomainARecord")

NewARecord == Declare("DomainARecord", "DomainARecord", DomainARecordProps, "done")

Synth ==
    \/ NewVpc \/ LookupHostedZone
    \/ NewFileSystem \/ NewAccessPoint \/ NewTaskDefinition \/ ImportDatabaseSecret
    \/ AddWebContainer \/ AddEfsVolume \/ AddEfsMountPoint
    \/ AddEfsPolicy \/ AddSecretPolicy \/ AddContainerPort
    \/ NewLoadBalancer \/ NewCluster \/ NewFargateService \/ AllowEfsFromService
    \/ NewTargetGroup \/ NewListener \/ NewListenerRule
    \/ AutoScaleTaskCount \/ ScaleOnCpuUtilization \/ ScaleOnMemoryUtilization
    \/ NewCertificate \/ NewLimitedPolicy \/ NewDistribution \/ NewARecord

(***************************************************************************)
(* The reference relation of the declared graph.                           *)
(***************************************************************************)
Constructs == DOMAIN tmpl
Declared == {r \in Constructs : tmpl[r].kind = "resource"}
Imported == {r \in Constructs : tmpl[r].kind = "import"}

ManagedPolicies == {"ALL_VIEWER", "CACHING_DISABLED", "CACHING_OPTIMIZED"}

Tokens(S) == {t.target : t \in {u \in S : u.kind /= "literal"}}

VolumeRefs(v) ==
    Tokens({v.efsVolumeConfiguration.fileSystemId,
            v.efsVolumeConfiguration.authorizationConfig.accessPointId})

ContainerRefs(c) == Tokens({c.secrets[k] : k \in DOMAIN c.secrets})

BehaviorRefs(b) ==
    {b.origin.loadBalancer}
    \cup Tokens({b.origin.customHeaders[h] : h \in DOMAIN b.origin.customHeaders})
    \cup ({b.originRequestPolicy} \ ManagedPolicies)

Behaviors(cdn) ==
    {cdn.defaultBehavior} \cup {cdn.additionalBehaviors[p] : p \in DOMAIN cdn.additionalBehaviors}

Deps(id) ==
    LET c == tmpl[id] IN
    CASE c.type = "FileSystem" -> {c.vpc}
      [] c.type = "AccessPoint" -> {c.fileSystem}
      [] c.type = "TaskDefinition" ->
            UNION {ContainerRefs(c.containers[i]) : i \in DOMAIN c.containers}
            \cup UNION {VolumeRefs(v) : v \in c.volumes}
            \cup UNION {Tokens(st.resources) : st \in c.taskRolePolicy}
      [] c.type = "ApplicationLoadBalancer" -> {c.vpc}
      [] c.type = "Cluster" -> {c.vpc}
      [] c.type = "FargateService" -> {c.cluster, c.taskDefinition}
      [] c.type = "SecurityGroupIngress" -> {c.fileSystem, c.from}
      [] c.type = "ApplicationTargetGroup" -> {c.vpc} \cup {t.service : t \in c.targets}
      [] c.type = "ApplicationListener" -> {c.loadBalancer}
      [] c.type = "ApplicationListenerRule" ->
            {c.listener} \cup c.targetGroups
            \cup UNION {Tokens(cond.values) : cond \in c.conditions}
      [] c.type = "ScalableTarget" -> {c.service}
      [] c.type = "TargetTrackingPolicy" -> {c.scalingTarget}
      [] c.type = "DnsValidatedCertificate" -> {c.hostedZone} \cup Tokens({c.domainName})
      [] c.type = "Distribution" ->
            {c.certificate} \cup Tokens(c.domainNames)
            \cup UNION {BehaviorRefs(b) : b \in Behaviors(c)}
      [] c.type = "ARecord" -> {c.target, c.zone} \cup Tokens({c.recordName})
      [] OTHER -> {}

(***************************************************************************)
(* Creation by the deployment engine: a declared resource is created once  *)
(* every declared resource it references exists; dynamic references to a   *)
(* secret field are resolved against the secret store at that moment.      *)
(***************************************************************************)
ResolveToken(t) ==
    IF t.kind = "dynamicRef"
    THEN Lit(secretStore[tmpl[t.target].secretName][t.attr])
    ELSE t

ResolveOrigin(o) ==
    [o EXCEPT !.customHeaders = [h \in DOMAIN @ |-> ResolveToken(@[h])]]

ResolveBehavior(b) == [b EXCEPT !.origin = ResolveOrigin(@)]

Resolved(id) ==
    LET c == tmpl[id] IN
    CASE c.type = "ApplicationListenerRule" ->
            [c EXCEPT !.conditions =
                {[cond EXCEPT !.values = {ResolveToken(t) : t \in @}] : cond \in @}]
      [] c.type = "Distribution" ->
            [c EXCEPT !.defaultBehavior = ResolveBehavior(@),
                      !.additionalBehaviors = [p \in DOMAIN @ |-> ResolveBehavior(@[p])]]
      [] OTHER -> c

Created == DOMAIN live

NoDeployment == [state |-> "NONE", healthy |-> TRUE, failedTasks |-> 0, streak |-> 0]

Create(r) ==
    /\ pc = "done"
    /\ r \in Declared \ Created
    /\ (Deps(r) \cap Declared) \subseteq Created
    /\ live' = live @@ (r :> Resolved(r))
    /\ taskCount' = IF r = "ContainerService" THEN tmpl[r].desiredCount ELSE taskCount
    /\ UNCHANGED <<pc, props, tmpl, secretStore, cache, last, deployment>>

Deployed == pc = "done" /\ Created = Declared

(***************************************************************************)
(* Requests.  A request carries a set of headers; a path is the sequence   *)
(* of its segments ("/wp-includes/a.js" is <<"wp-includes", "a.js">>).     *)
(***************************************************************************)
Host == [h \in {"Host"} |-> "nopremise.cloud"]

RequestHeaders ==
    {Host @@ ("Cookie" :> "c")}
    \cup {Host @@ ("Cookie" :> "c") @@ ("X-Custom-Header" :> v) : v \in HeaderValues}

Paths ==
    {<<>>, <<"wp-includes">>, <<"wp-includes", "a.js">>, <<"wp-admin", "a.js">>, <<"x", "wp-includes", "a.js">>}

(***************************************************************************)
(* The load balancer listener (lines 213-227): the rule forwards a request *)
(* that satisfies every condition to its target group; any other request   *)
(* gets the listener's default action.                                     *)
(***************************************************************************)
ConditionHolds(cond, headers) ==
    /\ cond.field = "http-header"
    /\ cond.name \in DOMAIN headers
    /\ \E v \in cond.values : v.kind = "literal" /\ v.attr = headers[cond.name]

RuleMatches(rule, headers) == \A cond \in rule.conditions : ConditionHolds(cond, headers)

ForwardTo(tg) ==
    LET t == CHOOSE x \in live[tg].targets : TRUE IN
    [type |-> "forward", statusCode |-> 200, targetGroup |-> tg,
     container |-> t.containerName, port |-> live[tg].port]

ListenerAction(port, headers) ==
    LET rule == live["ListenerRule"]
        listener == live[rule.listener] IN
    IF port /= listener.port
    THEN [type |-> "refused", statusCode |-> 0]
    ELSE IF RuleMatches(rule, headers)
         THEN ForwardTo(CHOOSE tg \in rule.targetGroups : TRUE)
         ELSE listener.defaultAction

DirectRequest(headers) ==
    /\ Deployed
    /\ last' = [via |-> "direct", headers |-> headers,
                response |-> ListenerAction(live["Listener"].port, headers)]
    /\ UNCHANGED <<pc, props, tmpl, secretStore, live, taskCount, cache, deployment>>

(***************************************************************************)
(* The distribution (lines 248-277).                                       *)
(***************************************************************************)
PathMatches(pattern, path) ==
    CASE pattern = "wp-includes/*" -> Len(path) >= 2 /\ path[1] = "wp-includes"
      [] OTHER -> FALSE

BehaviorFor(path) ==
    LET cdn == live["CDN"]
        hits == {p \in DOMAIN cdn.additionalBehaviors : PathMatches(p, path)} IN
    IF hits = {} THEN cdn.defaultBehavior
    ELSE cdn.additionalBehaviors[CHOOSE p \in hits : TRUE]

CachingEnabled(b) == b.cachePolicy /= "CACHING_DISABLED"

ForwardedHeaders(b, headers) ==
    IF b.originRequestPolicy = "ALL_VIEWER" THEN headers
    ELSE [h \in DOMAIN headers \cap live[b.originRequestPolicy].headerBehavior |-> headers[h]]

CustomHeaders(b) == [h \in DOMAIN b.origin.customHeaders |-> b.origin.customHeaders[h].attr]

OriginHeaders(b, headers) == CustomHeaders(b) @@ ForwardedHeaders(b, headers)

OriginProtocol(b, proto) == IF b.origin.protocolPolicy = "http-only" THEN "http" ELSE proto

OriginPort(b, proto) == IF OriginProtocol(b, proto) = "http" THEN 80 ELSE 443

ViewerRequest(proto, path, headers) ==
    LET b == BehaviorFor(path) IN
    /\ Deployed
    /\ IF proto = "http" /\ b.viewerProtocolPolicy = "redirect-to-https"
       THEN /\ last' = [via |-> "edge", proto |-> proto, path |-> path, headers |-> headers,
                        cachePolicy |-> b.cachePolicy, served |-> "redirect-https"]
            /\ cache' = cache
       ELSE IF CachingEnabled(b) /\ path \in cache
       THEN /\ last' = [via |-> "edge", proto |-> proto, path |-> path, headers |-> headers,
                        cachePolicy |-> b.cachePolicy, served |-> "cache"]
            /\ cache' = cache
       ELSE /\ last' = [via |-> "edge", proto |-> proto, path |-> path, headers |-> headers,
                        cachePolicy |-> b.cachePolicy, served |-> "origin",
                        originProtocol |-> OriginProtocol(b, proto),
                        originPort |-> OriginPort(b, proto),
                        forwarded |-> DOMAIN ForwardedHeaders(b, headers),
                        originHeaders |-> OriginHeaders(b, headers),
                        response |-> ListenerAction(OriginPort(b, proto),
                                                    OriginHeaders(b, headers))]
            /\ cache' = IF CachingEnabled(b) THEN cache \cup {path} ELSE cache
    /\ UNCHANGED <<pc, props, tmpl, secretStore, live, taskCount, deployment>>

(***************************************************************************)
(* Task-count scaling (lines 229-240): a target-tracking policy adds a     *)
(* task while its metric is above the target and removes one while every   *)
(* metric is below it, within [minCapacity, maxCapacity]; a service below  *)
(* minCapacity is raised to it only by a scale-out.                        *)
(***************************************************************************)
Utilizations == {50, 95}

Min(a, b) == IF a < b THEN a ELSE b
Max(a, b) == IF a > b THEN a ELSE b

ScaleOut(policy, u) ==
    LET target == live[live[policy].scalingTarget]
        new == Min(Max(taskCount + 1, target.minCapacity), target.maxCapacity) IN
    /\ Deployed
    /\ live[policy].type = "TargetTrackingPolicy"
    /\ u > live[policy].targetUtilizationPercent
    /\ new > taskCount
    /\ taskCount' = new
    /\ UNCHANGED <<pc, props, tmpl, secretStore, live, cache, last, deployment>>

ScaleIn(u) ==
    LET policies == {p \in Created : live[p].type = "TargetTrackingPolicy"}
        target == live["scaling"]
        new == Max(taskCount - 1, target.minCapacity) IN
    /\ Deployed
    /\ \A p \in policies : u < live[p].targetUtilizationPercent
    /\ new < taskCount
    /\ taskCount' = new
    /\ UNCHANGED <<pc, props, tmpl, secretStore, live, cache, last, deployment>>

(***************************************************************************)
(* Deployments of the service (lines 176-191, 203-210).  A deployment      *)
(* replaces the running task set by a new one.  A new task is healthy      *)
(* after healthyThresholdCount consecutive health checks; a task that      *)
(* fails its health check is stopped and counted.  With the circuit        *)
(* breaker declared, the deployment fails once MaxFailedTasks tasks have   *)
(* failed, and with rollback it is then rolled back to the previous task   *)
(* set.                                                                    *)
(***************************************************************************)
Steady == {"NONE", "COMPLETED", "ROLLED_BACK"}

StartDeployment(healthy) ==
    /\ Deployed
    /\ deployment.state \in Steady
    /\ deployment' = [state |-> "IN_PROGRESS", healthy |-> healthy,
                      failedTasks |-> 0, streak |-> 0]
    /\ UNCHANGED <<pc, props, tmpl, secretStore, live, taskCount, cache, last>>

HealthCheckPasses ==
    /\ deployment.state = "IN_PROGRESS"
    /\ deployment.healthy
    /\ deployment.streak < live["TargetGroup"].healthCheck.healthyThresholdCount
    /\ deployment' = [deployment EXCEPT !.streak = @ + 1]
    /\ UNCHANGED <<pc, props, tmpl, secretStore, live, taskCount, cache, last>>

HealthCheckFails ==
    /\ deployment.state = "IN_PROGRESS"
    /\ ~deployment.healthy
    /\ deployment.failedTasks < MaxFailedTasks
    /\ deployment' = [deployment EXCEPT !.failedTasks = @ + 1, !.streak = 0]
    /\ UNCHANGED <<pc, props, tmpl, secretStore, live, taskCount, cache, last>>

DeploymentCompletes ==
    /\ deployment.state = "IN_PROGRESS"
    /\ deployment.streak = live["TargetGroup"].healthCheck.healthyThresholdCount
    /\ deployment' = [deployment EXCEPT !.state = "COMPLETED"]
    /\ UNCHANGED <<pc, props, tmpl, secretStore, live, taskCount, cache, last>>

CircuitBreakerTrips ==
    /\ deployment.state = "IN_PROGRESS"
    /\ "circuitBreaker" \in DOMAIN live["ContainerService"]
    /\ deployment.failedTasks = MaxFailedTasks
    /\ deployment' = [deployment EXCEPT !.state = "FAILED"]
    /\ UNCHANGED <<pc, props, tmpl, secretStore, live, taskCount, cache, last>>

Rollback ==
    /\ deployment.state = "FAILED"
    /\ live["ContainerService"].circuitBreaker.rollback
    /\ deployment' = [deployment EXCEPT !.state = "ROLLED_BACK"]
    /\ UNCHANGED <<pc, props, tmpl, secretStore, live, taskCount, cache, last>>

NoRequest == [via |-> "none"]

Init ==
    /\ pc = "VPC"
    /\ props \in {WebServiceProps(s) : s \in Scalings}
    /\ tmpl = <<>>
    /\ secretStore \in
          {[n \in {"planetscape-mysql"} |->
                [dbname |-> "wordpress", host |-> "db.internal", port |-> "3306",
                 username |-> "admin", password |-> "p1", loadbalancer |-> v]] :
             v \in HeaderValues}
    /\ live = <<>>
    /\ taskCount = 0
    /\ cache = {}
    /\ last = NoRequest
    /\ deployment = NoDeployment

Provision == \E r \in Constructs : Create(r)

Traffic ==
    \/ \E h \in RequestHeaders : DirectRequest(h)
    \/ \E proto \in {"http", "https"}, path \in Paths, h \in RequestHeaders :
          ViewerRequest(proto, path, h)

Scaling ==
    \/ \E p \in {"cpu", "memory"}, u \in Utilizations : ScaleOut(p, u)
    \/ \E u \in Utilizations : ScaleIn(u)

Next == Synth \/ Provision \/ Traffic \/ Scaling

Spec == Init /\ [][Next]_vars

(***************************************************************************)
(* Deployments, with the control plane's progress: it keeps checking the   *)
(* health of new tasks, evaluating the circuit breaker and rolling back.   *)
(* Starting a deployment is the operator's choice and is not forced.       *)
(***************************************************************************)
Deploy ==
    \/ \E healthy \in BOOLEAN : StartDeployment(healthy)
    \/ HealthCheckPasses
    \/ HealthCheckFails
    \/ DeploymentCompletes
    \/ CircuitBreakerTrips
    \/ Rollback

DeployNext == Synth \/ Provision \/ Deploy

DeploySpec ==
    /\ Init
    /\ [][DeployNext]_vars
    /\ WF_vars(HealthCheckPasses)
    /\ WF_vars(HealthCheckFails)
    /\ WF_vars(DeploymentCompletes)
    /\ WF_vars(CircuitBreakerTrips)
    /\ WF_vars(Rollback)

(***************************************************************************)
(*                               Properties                                *)
(***************************************************************************)
Container == tmpl["TaskDefinition"].containers[1]

SharedSecret == secretStore[props.db.secretName]["loadbalancer"]

CarriesSecret(headers) ==
    "X-Custom-Header" \in DOMAIN headers /\ headers["X-Custom-Header"] = SharedSecret

(* C1: a request arriving at the listener on port 80 is forwarded to the   *)
(* WordPress target group only if it carries X-Custom-Header with the      *)
(* value of the secret's 'loadbalancer' field; every other request gets    *)
(* the fixed 403 'Access Denied' response and reaches no container.        *)
OriginAccessRestricted ==
    last.via = "direct" =>
        IF CarriesSecret(last.headers)
        THEN /\ last.response.type = "forward"
             /\ last.response.targetGroup = "TargetGroup"
             /\ last.response.container = "WebContainer"
        ELSE last.response =
                [type |-> "fixed-response", statusCode |-> 403, messageBody |-> "Access Denied"]

DirectRequestDenied ==
    /\ last.via = "direct"
    /\ "X-Custom-Header" \in DOMAIN last.headers
    /\ last.headers["X-Custom-Header"] /= SharedSecret
    /\ last.response.statusCode = 403

(* C2: the container's port mapping (containerPort and hostPort), the      *)
(* target group's port, the containerPort of the load-balancer target and  *)
(* the health-check port are all CONTAINER_PORT, and the container named   *)
(* in the target is the container that declares the port mapping.          *)
PortsAgree ==
    pc = "done" =>
        LET tg == tmpl["TargetGroup"] IN
        /\ Container.portMappings /= {}
        /\ \A pm \in Container.portMappings :
              pm.containerPort = CONTAINER_PORT /\ pm.hostPort = CONTAINER_PORT
        /\ tg.port = CONTAINER_PORT
        /\ tg.healthCheck.port = "8080"
        /\ tg.targets /= {}
        /\ \A t \in tg.targets :
              LET td == tmpl[tmpl[t.service].taskDefinition] IN
              /\ t.containerPort = tg.port
              /\ \E k \in DOMAIN td.containers :
                    /\ td.containers[k].containerName = t.containerName
                    /\ \E pm \in td.containers[k].portMappings :
                          pm.containerPort = t.containerPort

PortsDeclared ==
    /\ Deployed
    /\ live["TargetGroup"].port = 8080
    /\ \E pm \in live["TaskDefinition"].containers[1].portMappings : pm.containerPort = 8080

AllReferencesDeclared ==
    /\ \A r \in Declared : Deps(r) \subseteq Declared
    /\ \A r \in Created : Deps(r) \subseteq Created

(* C4, amended: every reference points at a construct of the same graph    *)
(* that exists when the reference is made: a resource the stack declares   *)
(* or, for the database secret and the hosted zone, an existing resource   *)
(* imported by name or lookup, which the stack does not create.  The       *)
(* reference relation has no cycle, the container named in the             *)
(* load-balancer target is a container of the service's task definition,   *)
(* a resource that is not yet created can always be found whose declared   *)
(* references are all created, and no declared resource is created before  *)
(* a declared resource it references.                                      *)
RECURSIVE Peel(_)
Peel(S) ==
    LET free == {r \in S : Deps(r) \cap S = {}} IN
    IF free = {} THEN S ELSE Peel(S \ free)

Acyclic == Peel(Constructs) = {}

ReferencesResolve ==
    /\ \A r \in Constructs : Deps(r) \subseteq Constructs
    /\ Imported \subseteq {"DatabaseSecret", " HostedZone"}
    /\ \A r \in Imported : tmpl[r].type \in {"Secret", "HostedZone"}
    /\ Acyclic
    /\ pc = "done" =>
          /\ {props.vpc, props.hostedZone} \subseteq Constructs
          /\ \A t \in tmpl["TargetGroup"].targets :
                \E k \in DOMAIN tmpl[tmpl[t.service].taskDefinition].containers :
                    tmpl[tmpl[t.service].taskDefinition].containers[k].containerName
                        = t.containerName
          /\ Created /= Declared =>
                \E r \in Declared \ Created : (Deps(r) \cap Declared) \subseteq Created
    /\ \A r \in Created : (Deps(r) \cap Declared) \subseteq Created

ReferencingResourcesCreated ==
    /\ Deployed
    /\ "DatabaseSecret" \in Deps("ListenerRule") \ Created
    /\ {"PersistentStorage", "PersistentStorageAccessPoint"} \subseteq
          Deps("TaskDefinition") \cap Created

(* C5: the service is declared with the circuit breaker and rollback =     *)
(* true, so a deployment whose new tasks fail to become healthy eventually *)
(* ends rolled back to the previous task set, with no operator action.     *)
RollbackIsAutomatic ==
    /\ [](pc = "done" => tmpl["ContainerService"].circuitBreaker.rollback)
    /\ (deployment.state = "IN_PROGRESS" /\ ~deployment.healthy)
          ~> (deployment.state = "ROLLED_BACK")

FailedDeploymentRolledBack ==
    /\ deployment.state = "ROLLED_BACK"
    /\ ~deployment.healthy
    /\ deployment.failedTasks = MaxFailedTasks

(* C6: the secret is obtained only by its name; the five database settings *)
(* of the container are secret references resolved at launch, none of them *)
(* is in the plain environment map, and no literal of the declared         *)
(* configuration is a value held by the secret.                            *)
DatabaseSettings ==
    {"WORDPRESS_DATABASE_NAME", "WORDPRESS_DATABASE_HOST", "WORDPRESS_DATABASE_PORT_NUMBER",
     "WORDPRESS_DATABASE_USER", "WORDPRESS_DATABASE_PASSWORD"}

StoredValues ==
    UNION {{secretStore[n][f] : f \in DOMAIN secretStore[n]} : n \in DOMAIN secretStore}

TemplateTokens ==
    LET rule == tmpl["ListenerRule"]
        cdn == tmpl["CDN"] IN
    {Container.environment[k] : k \in DOMAIN Container.environment}
    \cup {Container.secrets[k] : k \in DOMAIN Container.secrets}
    \cup UNION {cond.values : cond \in rule.conditions}
    \cup UNION {{b.origin.customHeaders[h] : h \in DOMAIN b.origin.customHeaders} :
                    b \in Behaviors(cdn)}

CredentialsByReference ==
    pc = "done" =>
        /\ tmpl["DatabaseSecret"] =
              [kind |-> "import", type |-> "Secret", secretName |-> props.db.secretName]
        /\ props.db.secretName = "planetscape-mysql"
        /\ DOMAIN Container.secrets = DatabaseSettings
        /\ \A k \in DatabaseSettings :
              /\ Container.secrets[k].kind = "secretRef"
              /\ Container.secrets[k].target = "DatabaseSecret"
        /\ {Container.secrets[k].attr : k \in DatabaseSettings}
              = {"dbname", "host", "port", "username", "password"}
        /\ DOMAIN Container.environment \cap DatabaseSettings = {}
        /\ \A t \in TemplateTokens : t.kind = "literal" => t.attr \notin StoredValues

SecretsDeclaredByReference ==
    /\ Deployed
    /\ live["TaskDefinition"].containers[1].secrets["WORDPRESS_DATABASE_PASSWORD"]
          = [kind |-> "secretRef", target |-> "DatabaseSecret", attr |-> "password"]

(* C7: the container's mount point names the volume wp-vol of the same     *)
(* task definition; the volume's filesystem is the declared filesystem and *)
(* its access point is one created on that filesystem; the access point    *)
(* forces POSIX user 1001:0, the owner it gives the /wordpress directory.  *)
MountThroughAccessPoint ==
    pc = "done" =>
        LET td == tmpl["TaskDefinition"] IN
        /\ Container.mountPoints /= {}
        /\ \A mp \in Container.mountPoints :
              /\ mp.sourceVolume = "wp-vol"
              /\ \E v \in td.volumes : v.name = mp.sourceVolume
        /\ \A v \in td.volumes :
              LET fs == v.efsVolumeConfiguration.fileSystemId
                  ap == v.efsVolumeConfiguration.authorizationConfig.accessPointId IN
              /\ fs = Ref("PersistentStorage", "fileSystemId")
              /\ tmpl[fs.target].type = "FileSystem"
              /\ ap.kind = "ref" /\ ap.attr = "accessPointId"
              /\ tmpl[ap.target].type = "AccessPoint"
              /\ tmpl[ap.target].fileSystem = fs.target
              /\ tmpl[ap.target].posixUser = [uid |-> "1001", gid |-> "0"]
              /\ tmpl[ap.target].createAcl.ownerUid = tmpl[ap.target].posixUser.uid
              /\ tmpl[ap.target].createAcl.ownerGid = tmpl[ap.target].posixUser.gid
              /\ tmpl[ap.target].path = "/wordpress"

VolumeMounted ==
    /\ Deployed
    /\ \E mp \in live["TaskDefinition"].containers[1].mountPoints :
          \E v \in live["TaskDefinition"].volumes : v.name = mp.sourceVolume

(* C8: each cache behaviour uses an origin that adds X-Custom-Header with  *)
(* the secret field the listener rule matches on, so every request the     *)
(* distribution sends to the load balancer is forwarded to the target      *)
(* group and never answered with the 403 default action.                   *)
EdgeRequestsPassHeaderCheck ==
    /\ pc = "done" =>
          \A b \in Behaviors(tmpl["CDN"]) :
              /\ "X-Custom-Header" \in DOMAIN b.origin.customHeaders
              /\ \A cond \in tmpl["ListenerRule"].conditions :
                    /\ cond.name = "X-Custom-Header"
                    /\ b.origin.customHeaders[cond.name] \in cond.values
                    /\ b.origin.customHeaders[cond.name].attr = "loadbalancer"
    /\ (last.via = "edge" /\ last.served = "origin") =>
          /\ last.response.type = "forward"
          /\ last.response.targetGroup = "TargetGroup"
          /\ last.response.statusCode /= 403

ViewerHeaderOverridden ==
    /\ last.via = "edge"
    /\ last.served = "origin"
    /\ last.path = <<"wp-includes", "a.js">>
    /\ "X-Custom-Header" \in DOMAIN last.headers
    /\ last.headers["X-Custom-Header"] /= SharedSecret
    /\ last.response.type = "forward"

(* C9: a request whose path matches 'wp-includes/*' is served under the    *)
(* caching-optimized policy and only the Host header (with all query       *)
(* strings) is forwarded for it; any other path falls to the default       *)
(* behaviour, which is caching-disabled, so its response is never served   *)
(* from the edge cache.  A viewer HTTP request is redirected to HTTPS and  *)
(* the origin is contacted over HTTP only, on the listener's port 80.      *)
UnderWpIncludes(path) == Len(path) >= 2 /\ path[1] = "wp-includes"

CachingDecidedByPath ==
    /\ \A path \in cache : UnderWpIncludes(path)
    /\ last.via = "edge" =>
          /\ IF UnderWpIncludes(last.path)
             THEN /\ last.cachePolicy = "CACHING_OPTIMIZED"
                  /\ last.served = "origin" => last.forwarded \subseteq {"Host"}
                  /\ live["Limited"].queryStringBehavior = "all"
             ELSE /\ last.cachePolicy = "CACHING_DISABLED"
                  /\ last.served /= "cache"
          /\ last.proto = "http" <=> last.served = "redirect-https"
          /\ last.served = "origin" =>
                /\ last.originProtocol = "http"
                /\ last.originPort = live["Listener"].port
                /\ last.originPort = 80
                /\ last.response.type /= "refused"

ServedFromEdgeCache ==
    /\ last.via = "edge"
    /\ last.served = "cache"
    /\ last.path = <<"wp-includes", "a.js">>

(* C10: the service's desired count lies in [scaling.min, scaling.max]     *)
(* and, through every sequence of scale-out and scale-in steps, the task   *)
(* count is never below scaling.min nor above scaling.max.  Stated here    *)
(* for the props with min <= max only.                                     *)
TaskCountWithinBounds ==
    (Deployed /\ props.scaling.min <= props.scaling.max) =>
        /\ props.scaling.min <= taskCount
        /\ taskCount <= props.scaling.max

=============================================================================
